---- MODULE Spec2Model ----
(***************************************************************************)
(* A model of switchlike<input_type, case_type, return_type>               *)
(* (src/c++/src/switchlike.cpp, lines 116-139).                            *)
(*                                                                         *)
(* Values.  The template is instantiated with the arithmetic types int and *)
(* double.  A number x is represented by the integer 2*x (its number of    *)
(* halves), so that 1 is 2, 1.5 is 3 and 2 is 4; an int is an even number  *)
(* of halves.  Converting a double to int truncates toward zero, converting*)
(* an int to double is exact.                                              *)
(*                                                                         *)
(* Callables.  A std::function<return_type()> is a record saying what a    *)
(* call of it does: return a value (ret, the empty tuple for void and a    *)
(* one-element tuple for int) or throw an exception (exc).  A predicate is *)
(* a name that PredicateApply interprets.                                  *)
(*                                                                         *)
(* One call of switchlike is run statement by statement (pc); trace logs   *)
(* every call the function makes of a callable it was given, with the      *)
(* arguments it passed.  history keeps what each finished call delivered.  *)
(***************************************************************************)
EXTENDS Integers, Sequences, FiniteSets

VARIABLES
    T,             \* the template arguments: input_type, case_type, return_type
    input,         \* parameter input (line 120)
    cases,         \* parameter cases (lines 121-122): sequence of [first, second]
    default_func,  \* parameter default_func (lines 123-124)
    predicate,     \* parameter predicate (lines 125-130)
    pc,            \* position in the body of switchlike
    it,            \* the range-for iterator: how many elements of cases it has passed
    caze,          \* the loop variable caze (line 132)
    trace,         \* calls of the predicate and of producers made by this call
    outcome,       \* how this call ended: value returned or exception thrown
    history        \* <<trace, outcome>> of every finished call, oldest first

vars == <<T, input, cases, default_func, predicate, pc, it, caze, trace,
          outcome, history>>

args == <<T, input, cases, default_func, predicate>>

\* Largest length of the initializer_list cases.
MaxCases == 2

\* Largest number of calls of switchlike made with the same arguments.
MaxCalls == 2

-----------------------------------------------------------------------------
(* Types and conversions *)

Types == {"int", "double"}

\* The values of each type used as inputs and keys (in halves): the ints 1, 2
\* and the doubles 1, 1.5, 2.
ValuesOf(t) == IF t = "int" THEN {2, 4} ELSE {2, 3, 4}

\* Truncation toward zero of a number of halves to a whole number.
Trunc(h) == IF h >= 0 THEN 2 * (h \div 2) ELSE -(2 * ((-h) \div 2))

\* Implicit conversion of the value v to the type t.
Convert(v, t) == IF t = "int" THEN Trunc(v) ELSE v

-----------------------------------------------------------------------------
(* Callables *)

Return(v) == [kind |-> "return", ret |-> v, exc |-> "none"]

Throw(e) == [kind |-> "throw", ret |-> <<>>, exc |-> e]

\* Mutant of NoOp: the default argument is an empty std::function, whose call
\* throws std::bad_function_call.
NoOpEmptyFunction == [kind |-> "throw", ret |-> <<>>, exc |-> "bad_function_call"]

\* The default argument of default_func: the lambda [] (){}.
NoOp == [kind |-> "noop", ret |-> <<>>, exc |-> "none"]

\* The functions a case can carry, by return_type.
CaseProducers(rt) ==
    IF rt = "void" THEN {Return(<<>>), Throw("E1")}
    ELSE {Return(<<5>>), Return(<<6>>), Throw("E1")}

\* The functions that can be passed as default_func, by return_type; with
\* return_type void the argument may be left out.
DefaultProducers(rt) ==
    IF rt = "void" THEN {NoOp, Return(<<>>), Throw("E2")}
    ELSE {Return(<<-1>>), Throw("E2")}

\* The predicates that can be passed; "default" is the argument left out.
\* "mod" takes two ints.
Predicates(t) ==
    {"default", "less", "throwing"} \cup
    (IF t.input_type = "int" /\ t.case_type = "int" THEN {"mod"} ELSE {})

\* The default argument of predicate: b == a.
DefaultPredicate(a, b) == b = a

\* One call predicate(a, b): "true", "false" or "throw" (exception E3).
\*   mod      : a % b == 0                              (lines 182-185)
\*   less     : a < b
\*   throwing : if (a < b) throw E3; return b == a;
PredicateApply(p, a, b) ==
    CASE p = "default"  -> IF DefaultPredicate(a, b) THEN "true" ELSE "false"
      [] p = "mod"      -> IF (a \div 2) % (b \div 2) = 0 THEN "true" ELSE "false"
      [] p = "less"     -> IF a < b THEN "true" ELSE "false"
      [] p = "throwing" -> IF a < b THEN "throw"
                           ELSE IF b = a THEN "true" ELSE "false"

\* A call that ended with the exception e reaching the caller.
Thrown(e) == [kind |-> "thrown", ret |-> <<>>, exc |-> e]

\* A call that ended with the value v returned to the caller.
Returned(v) == [kind |-> "returned", ret |-> v, exc |-> "none"]

\* What one call f() of a std::function<return_type()> delivers.
Invoke(f) == IF f.kind = "throw" THEN Thrown(f.exc) ELSE Returned(f.ret)

-----------------------------------------------------------------------------
(* The arguments of a call *)

TemplateArgs == [input_type : Types, case_type : Types, return_type : {"void", "int"}]

\* std::pair<case_type, std::function<return_type()>>
Pairs(t) == [first : ValuesOf(t.case_type), second : CaseProducers(t.return_type)]

SeqsUpTo(S, n) == UNION {[1..k -> S] : k \in 0..n}

\* caze before the loop has bound it.
NoCase == [first |-> 0, second |-> NoOp]

NoOutcome == [kind |-> "running", ret |-> <<>>, exc |-> "none"]

Init ==
    /\ T \in TemplateArgs
    /\ input \in ValuesOf(T.input_type)
    /\ cases \in SeqsUpTo(Pairs(T), MaxCases)
    /\ default_func \in DefaultProducers(T.return_type)
    /\ predicate \in Predicates(T)
    /\ pc = "loop"
    /\ it = 0
    /\ caze = NoCase
    /\ trace = <<>>
    /\ outcome = NoOutcome
    /\ history = <<>>

-----------------------------------------------------------------------------
(* The body of switchlike, lines 132-138 *)

PredEvent(k, a, b, r) == [ev |-> "predicate", idx |-> k, a |-> a, b |-> b, r |-> r]

ProducerEvent(what, k, r) == [ev |-> what, idx |-> k, a |-> 0, b |-> 0, r |-> r]

\* Line 132: the loop variable is a std::pair<input_type, ...> copy-initialised
\* from the element of cases, a std::pair<case_type, ...>: the key is converted
\* to input_type.
LoopVariable(c) == [first |-> Convert(c.first, T.input_type), second |-> c.second]

\* The second argument of predicate(input, caze.first) on line 133: caze.first,
\* an input_type, converted to the parameter type case_type.
KeyArgument(c) == Convert(c.first, T.case_type)

\* The call ends: the value or the exception goes to the caller.
Finish(o, tr) ==
    /\ pc' = "done"
    /\ outcome' = o
    /\ history' = Append(history, [trace |-> tr, outcome |-> o])

\* Mutant of LoopNext: the loop walks cases from its last element backwards.
LoopNextReversed ==
    /\ pc = "loop"
    /\ it < Len(cases)
    /\ it' = it + 1
    /\ caze' = LoopVariable(cases[Len(cases) - it])
    /\ pc' = "test"
    /\ UNCHANGED <<args, trace, outcome, history>>

\* Line 132: the range-for takes the next element of cases.
LoopNext ==
    /\ pc = "loop"
    /\ it < Len(cases)
    /\ it' = it + 1
    /\ caze' = LoopVariable(cases[it + 1])
    /\ pc' = "test"
    /\ UNCHANGED <<args, trace, outcome, history>>

\* Mutant of PredicateCall: an exception of the predicate is caught and taken
\* as "no match".
PredicateCallCatching ==
    /\ pc = "test"
    /\ LET b  == KeyArgument(caze)
           r  == PredicateApply(predicate, input, b)
       IN /\ trace' = Append(trace, PredEvent(it, input, b, r))
          /\ pc' = IF r = "true" THEN "invoke" ELSE "loop"
    /\ UNCHANGED <<args, it, caze, outcome, history>>

\* Line 133: if (predicate(input, caze.first)).
PredicateCall ==
    /\ pc = "test"
    /\ LET b  == KeyArgument(caze)
           r  == PredicateApply(predicate, input, b)
           tr == Append(trace, PredEvent(it, input, b, r))
       IN /\ trace' = tr
          /\ CASE r = "throw" -> Finish(Thrown("E3"), tr)
               [] r = "true"  -> pc' = "invoke" /\ UNCHANGED <<outcome, history>>
               [] r = "false" -> pc' = "loop" /\ UNCHANGED <<outcome, history>>
    /\ UNCHANGED <<args, it, caze>>

\* Mutant of CaseInvoke: the case's function is called without `return`, so
\* the loop goes on after it (fall-through).
CaseInvokeFallThrough ==
    /\ pc = "invoke"
    /\ LET o  == Invoke(caze.second)
           tr == Append(trace, ProducerEvent("case", it, o.kind))
       IN /\ trace' = tr
          /\ IF o.kind = "thrown" THEN Finish(o, tr)
             ELSE pc' = "loop" /\ UNCHANGED <<outcome, history>>
    /\ UNCHANGED <<args, it, caze>>

\* Mutant of CaseInvoke: the case's function is called, its value dropped and
\* the value of default_func() returned in its place.
CaseInvokeSubstituting ==
    /\ pc = "invoke"
    /\ LET o  == Invoke(caze.second)
           tr == Append(trace, ProducerEvent("case", it, o.kind))
       IN /\ trace' = tr
          /\ Finish(IF o.kind = "thrown" THEN o ELSE Returned(default_func.ret), tr)
    /\ UNCHANGED <<args, it, caze>>

\* Line 134: return (caze.second)();
CaseInvoke ==
    /\ pc = "invoke"
    /\ LET o  == Invoke(caze.second)
           tr == Append(trace, ProducerEvent("case", it, o.kind))
       IN trace' = tr /\ Finish(o, tr)
    /\ UNCHANGED <<args, it, caze>>

\* Mutant of DefaultInvoke: the loop can be left one element early.
DefaultInvokeEarly ==
    /\ pc = "loop"
    /\ it >= Len(cases) - 1
    /\ LET o  == Invoke(default_func)
           tr == Append(trace, ProducerEvent("default", 0, o.kind))
       IN trace' = tr /\ Finish(o, tr)
    /\ UNCHANGED <<args, it, caze>>

\* Line 138: return default_func();
DefaultInvoke ==
    /\ pc = "loop"
    /\ it = Len(cases)
    /\ LET o  == Invoke(default_func)
           tr == Append(trace, ProducerEvent("default", 0, o.kind))
       IN trace' = tr /\ Finish(o, tr)
    /\ UNCHANGED <<args, it, caze>>

\* Mutant of CallAgain: the iterator is a static that survives the call.
CallAgainKeepingIterator ==
    /\ pc = "done"
    /\ Len(history) < MaxCalls
    /\ pc' = "loop"
    /\ caze' = NoCase
    /\ trace' = <<>>
    /\ outcome' = NoOutcome
    /\ UNCHANGED <<args, it, history>>

\* The caller calls switchlike again with the same arguments: the parameters
\* and locals of lines 119-139 are fresh in every call.
CallAgain ==
    /\ pc = "done"
    /\ Len(history) < MaxCalls
    /\ pc' = "loop"
    /\ it' = 0
    /\ caze' = NoCase
    /\ trace' = <<>>
    /\ outcome' = NoOutcome
    /\ UNCHANGED <<args, history>>

Next == LoopNext \/ PredicateCall \/ CaseInvoke \/ DefaultInvoke \/ CallAgain

Spec == Init /\ [][Next]_vars

-----------------------------------------------------------------------------
(* Reading the trace of a call *)

\* Positions of tr that are calls of a producer, of a case's producer, of the
\* default producer, of the predicate.
ProducerCalls(tr) == {p \in 1..Len(tr) : tr[p].ev \in {"case", "default"}}

CaseCalls(tr) == {p \in 1..Len(tr) : tr[p].ev = "case"}

DefaultCalls(tr) == {p \in 1..Len(tr) : tr[p].ev = "default"}

PredicateCalls(tr) == {p \in 1..Len(tr) : tr[p].ev = "predicate"}

\* The call has returned normally to its caller.
ReturnedNormally == pc = "done" /\ outcome.kind = "returned"

\* The cases whose key, as the caller supplied it, satisfies predicate(input, key).
SuppliedMatches ==
    {k \in 1..Len(cases) : PredicateApply(predicate, input, cases[k].first) = "true"}

\* The cases the predicate said "true" for when this call evaluated it.
EvaluatedTrue == {trace[p].idx : p \in {q \in PredicateCalls(trace) : trace[q].r = "true"}}

-----------------------------------------------------------------------------
(* C1: a call in which nothing raises invokes exactly one producer in total,
   a case's or the default, and at no moment has a call invoked more than
   one producer. *)
C1_ExactlyOneProducer ==
    /\ Cardinality(ProducerCalls(trace)) <= 1
    /\ ReturnedNormally => Cardinality(ProducerCalls(trace)) = 1

\* A call over two cases returned after invoking the first case's producer.
C1_Witness ==
    /\ ReturnedNormally
    /\ Len(cases) = 2
    /\ \E p \in CaseCalls(trace) : trace[p].idx = 1

(* C2: when at least one case satisfies predicate(input, key), the producer
   invoked is that of the matching case with the smallest index. *)
C2_FirstMatchWins ==
    (pc = "done" /\ SuppliedMatches # {} /\ ProducerCalls(trace) # {}) =>
        \A p \in ProducerCalls(trace) :
            /\ trace[p].ev = "case"
            /\ trace[p].idx \in SuppliedMatches
            /\ \A k \in SuppliedMatches : trace[p].idx <= k

(* C3: the value a call returns is the value returned by the one producer it
   invoked: that of the first case the predicate said true for, or that of
   the default producer when the predicate said true for no case. *)
C3_ReturnsProducersValue ==
    ReturnedNormally =>
        /\ Cardinality(ProducerCalls(trace)) = 1
        /\ \A p \in CaseCalls(trace) :
              /\ EvaluatedTrue = {trace[p].idx}
              /\ cases[trace[p].idx].second.kind = "return"
              /\ outcome.ret = cases[trace[p].idx].second.ret
        /\ \A p \in DefaultCalls(trace) :
              /\ EvaluatedTrue = {}
              /\ outcome.ret = default_func.ret

\* A call returning int returned 6, the value of its second case's producer,
\* while the first case's producer and the default return other values.
C3_Witness ==
    /\ ReturnedNormally
    /\ Len(cases) = 2
    /\ cases[1].second = Return(<<5>>)
    /\ cases[2].second = Return(<<6>>)
    /\ default_func = Return(<<-1>>)
    /\ \E p \in CaseCalls(trace) : trace[p].idx = 2
    /\ outcome.ret = <<6>>

(* C4: with the predicate omitted, a case is selected if and only if its key
   equals the input and no earlier key does; if no key equals the input the
   default producer is invoked. *)
C4_DefaultPredicateSelectsEqualKey ==
    (predicate = "default" /\ pc = "done") =>
        /\ \A p \in CaseCalls(trace) :
              /\ cases[trace[p].idx].first = input
              /\ \A k \in 1..(trace[p].idx - 1) : cases[k].first # input
        /\ \A p \in DefaultCalls(trace) :
              \A k \in 1..Len(cases) : cases[k].first # input

(* C5: the default producer is invoked only after the predicate has been
   evaluated on every case and has returned false for each, exactly once and
   with no case producer invoked; a call in which the predicate returned
   false for every case ends with the default producer invoked; with an
   empty sequence the predicate is never evaluated. *)
C5_NoMatchInvokesDefault ==
    /\ \A p \in DefaultCalls(trace) :
          /\ p = Len(cases) + 1
          /\ \A q \in 1..Len(cases) :
                trace[q].ev = "predicate" /\ trace[q].idx = q /\ trace[q].r = "false"
          /\ ProducerCalls(trace) = {p}
    /\ (pc = "done" /\ \A q \in PredicateCalls(trace) : trace[q].r = "false") =>
          /\ Cardinality(DefaultCalls(trace)) = 1
          /\ CaseCalls(trace) = {}
    /\ cases = <<>> => PredicateCalls(trace) = {}

\* The default producer was invoked after the predicate refused two cases.
C5_Witness ==
    /\ pc = "done"
    /\ Len(cases) = 2
    /\ DefaultCalls(trace) = {3}

(* C6: the predicate is evaluated on the cases in sequence order, once per
   case, up to and including the first case it returns true for; nothing is
   evaluated after a match, and the matching case's producer is invoked
   right after the match. *)
C6_ShortCircuitOrder ==
    /\ \A p \in PredicateCalls(trace) :
          /\ trace[p].idx = p
          /\ trace[p].b = KeyArgument(LoopVariable(cases[p]))
          /\ \A q \in 1..(p - 1) : trace[q].ev = "predicate" /\ trace[q].r = "false"
    /\ \A p \in CaseCalls(trace) :
          /\ p = Len(trace)
          /\ p > 1
          /\ trace[p - 1].ev = "predicate"
          /\ trace[p - 1].r = "true"
          /\ trace[p - 1].idx = trace[p].idx

\* The first of two cases with different keys matched and its producer was
\* invoked: the second case was never examined.
C6_Witness ==
    /\ pc = "done"
    /\ Len(cases) = 2
    /\ cases[1].first # cases[2].first
    /\ Len(trace) = 2
    /\ trace[1].r = "true"
    /\ trace[2].ev = "case"

(* C7: an exception of the predicate ends the call with that exception at the
   caller: no later case is examined and no producer is invoked; an
   exception of the invoked producer ends the call with that exception at
   the caller, with no other producer invoked. *)
C7_FailuresPropagate ==
    /\ \A p \in PredicateCalls(trace) :
          trace[p].r = "throw" =>
              /\ p = Len(trace)
              /\ pc = "done"
              /\ outcome = Thrown("E3")
              /\ ProducerCalls(trace) = {}
    /\ \A p \in ProducerCalls(trace) :
          trace[p].r = "thrown" =>
              /\ p = Len(trace)
              /\ pc = "done"
              /\ ProducerCalls(trace) = {p}
              /\ outcome = Thrown(IF trace[p].ev = "case"
                                  THEN cases[trace[p].idx].second.exc
                                  ELSE default_func.exc)

\* The predicate threw on the first of two cases.
C7_Witness ==
    /\ pc = "done"
    /\ Len(cases) = 2
    /\ Len(trace) = 1
    /\ trace[1].r = "throw"
    /\ outcome = Thrown("E3")

(* C8: with return type void and the default producer omitted, a call in
   which no case matches completes normally, invokes no case producer and
   produces no result. *)
C8_OmittedDefaultIsNoOp ==
    (/\ pc = "done"
     /\ T.return_type = "void"
     /\ default_func = NoOp
     /\ \A q \in PredicateCalls(trace) : trace[q].r = "false") =>
        /\ outcome = Returned(<<>>)
        /\ CaseCalls(trace) = {}

\* A void call with the default omitted finished after two cases that did
\* not match.
C8_Witness ==
    /\ pc = "done"
    /\ T.return_type = "void"
    /\ default_func = NoOp
    /\ Len(cases) = 2
    /\ Len(trace) = 3
    /\ trace[1].r = "false"
    /\ trace[2].r = "false"

(* C9: every call made with the same arguments makes the same calls of the
   predicate and of the producers and ends in the same way (same branch,
   same result) as the calls before it. *)
C9_SameArgumentsSameResult ==
    \A j, k \in 1..Len(history) : history[j] = history[k]

\* A second call over two cases finished, and selected the second case.
C9_Witness ==
    /\ Len(history) = 2
    /\ Len(cases) = 2
    /\ \E p \in CaseCalls(history[2].trace) : history[2].trace[p].idx = 2

(* C10: every call of the predicate gets the input as its first argument and,
   as its second, the key of the case exactly as the caller supplied it. *)
C10_PredicateGetsSuppliedKey ==
    \A p \in PredicateCalls(trace) :
        /\ trace[p].a = input
        /\ trace[p].b = cases[trace[p].idx].first

====
